---- MODULE Spec2Model ----
(***************************************************************************)
(* Model of the "Mode A" marketplace notifier: the three program variants  *)
(* mode_a_bot.py ("v1"), mode_a_bot_v2.py ("v2") and mode_a_bot_web.py     *)
(* ("web").  Text is a sequence of one-character strings; a configuration  *)
(* is a function from the keys that are present to their values, as the    *)
(* JSON dictionary is.                                                     *)
(***************************************************************************)
EXTENDS Integers, Sequences, FiniteSets, TLC

\* ------------------------------------------------------------------ bounds
MaxLen == 2
MaxTerms == 1
MaxCycles == 2

\* ------------------------------------------------------- program constants
DEFAULT_INTERVAL == 180
COOLDOWN_SECONDS == 120
DEFAULT_PRICE_MIN == 0
DEFAULT_PRICE_MAX == 1000000000
MAX_PARSED_PRICE == 9999999

Variants == {"v1", "v2", "web"}

\* ------------------------------------------------------------------- text
\* "A" is an upper-case letter, "à" a letter with a diacritic, "€" a
\* character with no ASCII decomposition, " " white space.
Chars == {"a", "b", "A", "à", " ", "€"}

SeqsUpTo(S, n) == UNION {[1..k -> S] : k \in 0..n}

Texts == SeqsUpTo(Chars, MaxLen)

\* unicodedata.normalize("NFKD", c).encode("ascii", "ignore")
AsciiFold(c) ==
  IF c = "à" THEN <<"a">>
  ELSE IF c = "€" THEN <<>>
  ELSE <<c>>

RECURSIVE FoldAll(_)
FoldAll(s) == IF s = <<>> THEN <<>> ELSE AsciiFold(Head(s)) \o FoldAll(Tail(s))

RECURSIVE LStrip(_)
LStrip(s) == IF s # <<>> /\ Head(s) = " " THEN LStrip(Tail(s)) ELSE s

RECURSIVE RStrip(_)
RStrip(s) ==
  IF s # <<>> /\ s[Len(s)] = " " THEN RStrip(SubSeq(s, 1, Len(s) - 1)) ELSE s

Strip(s) == RStrip(LStrip(s))

LowerChar(c) == IF c = "A" THEN "a" ELSE c

Lower(s) == [i \in 1..Len(s) |-> LowerChar(s[i])]

\* re.sub(r"\s+", " ", s)
RECURSIVE Collapse(_)
Collapse(s) ==
  IF s = <<>> THEN <<>>
  ELSE IF Head(s) = " " THEN <<" ">> \o Collapse(LStrip(s))
  ELSE <<Head(s)>> \o Collapse(Tail(s))

normalize(txt) == Collapse(Lower(Strip(FoldAll(txt))))

\* Python's  w in t  on strings
Contains(w, t) ==
  \E i \in 0..(Len(t) - Len(w)) : SubSeq(t, i + 1, i + Len(w)) = w

\* any(f(x) for x in lst)
AnyTerm(lst, t) == \E i \in 1..Len(lst) : Contains(normalize(lst[i]), t)

\* f"{title} {desc}"
Combine(title, desc) == title \o <<" ">> \o desc

\* --------------------------------------------------------- configuration
Has(cfg, k) == k \in DOMAIN cfg

Get(cfg, k, d) == IF k \in DOMAIN cfg THEN cfg[k] ELSE d

\* ----------------------------------------------------------- predicates
None == <<>>

Some(p) == <<p>>

\* bug: an empty models list rejects instead of accepting
in_model_range_EmptyRejects(title, models) ==
  AnyTerm(models, normalize(title))

in_model_range(title, models) ==
  IF models = <<>> THEN TRUE ELSE AnyTerm(models, normalize(title))

price_ok(v, price, cfg) ==
  IF price = None THEN TRUE
  ELSE IF v = "v1"
    THEN \* cfg["price_min"] <= p <= cfg["price_max"]; KeyError -> True
         IF ~Has(cfg, "price_min") THEN TRUE
         ELSE IF ~(cfg["price_min"] <= price[1]) THEN FALSE
         ELSE IF ~Has(cfg, "price_max") THEN TRUE
         ELSE price[1] <= cfg["price_max"]
    ELSE /\ Get(cfg, "price_min", DEFAULT_PRICE_MIN) <= price[1]
         /\ price[1] <= Get(cfg, "price_max", DEFAULT_PRICE_MAX)

\* bug: the negative terms are not consulted
shipping_passes_NoNegative(text, cfg) ==
  IF ~Get(cfg, "require_shipping", FALSE) THEN TRUE
  ELSE LET t == normalize(text)
           pos_terms == Get(cfg, "shipping_positive", <<>>)
       IN IF pos_terms # <<>> THEN AnyTerm(pos_terms, t) ELSE TRUE

shipping_passes(text, cfg) ==
  IF ~Get(cfg, "require_shipping", FALSE) THEN TRUE
  ELSE LET t == normalize(text)
           pos_terms == Get(cfg, "shipping_positive", <<>>)
           neg_terms == Get(cfg, "shipping_negative", <<>>)
           has_pos == IF pos_terms # <<>> THEN AnyTerm(pos_terms, t) ELSE TRUE
           has_neg == IF neg_terms # <<>> THEN AnyTerm(neg_terms, t) ELSE FALSE
       IN has_pos /\ ~has_neg

\* bug: a hit is required in every group instead of in any group
terms_pass_EveryGroup(title, desc, cfg) ==
  LET t == normalize(Combine(title, desc))
      inc_groups == Get(cfg, "terms_any", <<>>)
      exc_terms == Get(cfg, "terms_exclude", <<>>)
      ok_any == IF inc_groups # <<>>
                THEN \A g \in 1..Len(inc_groups) : AnyTerm(inc_groups[g], t)
                ELSE TRUE
      ok_exc == IF exc_terms # <<>> THEN ~AnyTerm(exc_terms, t) ELSE TRUE
  IN ok_any /\ ok_exc

\* bug: the exclusion half is not applied
terms_pass_NoExclude(title, desc, cfg) ==
  LET t == normalize(Combine(title, desc))
      inc_groups == Get(cfg, "terms_any", <<>>)
  IN IF inc_groups # <<>>
       THEN \E g \in 1..Len(inc_groups) : AnyTerm(inc_groups[g], t)
       ELSE TRUE

terms_pass(title, desc, cfg) ==
  LET t == normalize(Combine(title, desc))
      inc_groups == Get(cfg, "terms_any", <<>>)
      exc_terms == Get(cfg, "terms_exclude", <<>>)
      ok_any == IF inc_groups # <<>>
                THEN \E g \in 1..Len(inc_groups) : AnyTerm(inc_groups[g], t)
                ELSE TRUE
      ok_exc == IF exc_terms # <<>> THEN ~AnyTerm(exc_terms, t) ELSE TRUE
  IN ok_any /\ ok_exc

\* ------------------------------------------------------------ fingerprint
\* hashlib.sha1(url.encode()).hexdigest(): a collision-resistant digest of
\* the exact URL, modelled as an injective tagging of the URL.
fingerprint(url) == <<"sha1", url>>

\* --------------------------------------------------------------- listings
ListingUrls == {"x1", "x2", "x3"}

Listing(u, t, d, p) == [url |-> u, title |-> t, desc |-> d, price |-> p]

L1 == Listing("x1", <<"A", "b">>, <<"à", "A">>, Some(250))
L2 == Listing("x1", <<"A", "b">>, <<"b", "b">>, Some(250))
L3 == Listing("x2", <<"a", "b">>, <<"à", "A">>, Some(90))
L4 == Listing("x2", <<"b">>, <<>>, None)
L5 == Listing("x3", <<"à", "b">>, <<"€">>, Some(500))
L6 == Listing("x3", <<"a", "b">>, <<"a", "a", " ", "b", "a">>, Some(MAX_PARSED_PRICE))

Listings == {L1, L2, L3, L4, L5, L6}

\* the pages a fetcher can return for a search URL (zero results is valid)
Pages == {<<>>, <<L1, L2>>, <<L4, L3>>, <<L5, L2, L6>>}

\* ---------------------------------------------------------- config files
PlatformOrder == <<"leboncoin", "vinted">>

Sources ==
  [platforms |-> <<"leboncoin", "vinted">>,
   leboncoin |-> [base_urls |-> <<"s1">>],
   vinted |-> [base_urls |-> <<"s3">>]]

\* three search URLs and no constraint at all
CfgEmpty ==
  [platforms |-> <<"leboncoin", "vinted">>,
   leboncoin |-> [base_urls |-> <<"s1", "s2">>],
   vinted |-> [base_urls |-> <<"s3">>]]

CfgEmptyExplicit ==
  Sources @@ [models |-> <<>>, require_shipping |-> FALSE,
              terms_any |-> <<>>, terms_exclude |-> <<>>,
              shipping_positive |-> <<>>, shipping_negative |-> <<>>]

CfgStrict ==
  Sources @@ [models |-> << <<"A", "b">> >>, price_min |-> 100,
              price_max |-> 300, require_shipping |-> TRUE,
              shipping_positive |-> << <<"a", "à">>, <<"b", "b">> >>,
              shipping_negative |-> << <<"b", "a">> >>,
              terms_any |-> << << <<"b", "b", "b">> >>, << <<"a">> >> >>,
              terms_exclude |-> << <<"b", "b">> >>,
              search_interval_seconds |-> 60]

CfgModel == Sources @@ [models |-> << <<"b", "b">>, <<"à", "b">> >>]

CfgPriceMax == Sources @@ [price_max |-> 300, search_interval_seconds |-> 300]

CfgPriceMin == Sources @@ [price_min |-> 100]

CfgShip ==
  Sources @@ [require_shipping |-> TRUE,
              shipping_positive |-> << <<"a", "a">> >>]

CfgTerms ==
  Sources @@ [terms_any |-> << << <<"b", " ", "a">> >>, << <<"A", "b">> >> >>,
              terms_exclude |-> << <<"€", "b", "b">> >>]

\* "vinted" is listed as a platform but has no section
CfgNoVinted ==
  [platforms |-> <<"leboncoin", "vinted">>,
   leboncoin |-> [base_urls |-> <<"s1">>]]

\* sections are present but there is no "platforms" key
CfgNoPlatforms ==
  [leboncoin |-> [base_urls |-> <<"s1">>],
   vinted |-> [base_urls |-> <<"s3">>]]

ConfigFiles ==
  {CfgEmpty, CfgEmptyExplicit, CfgStrict, CfgModel, CfgPriceMax, CfgPriceMin,
   CfgShip, CfgTerms, CfgNoVinted, CfgNoPlatforms}

NoCfg == [unbound |-> TRUE]

\* ------------------------------------------------------------------ state
VARIABLES
  variant,     \* which of the three programs runs
  credentials, \* TELEGRAM_BOT_TOKEN and TELEGRAM_CHAT_ID are both set
  pc,          \* position of the process
  exitCause,   \* the exception that ended the process, "" while it runs
  cfg,         \* the local cfg of main / bot_loop
  seen,        \* the set of fingerprints
  results,     \* the records aggregated in this cycle
  src,         \* index in PlatformOrder of the platform being fetched
  ui,          \* index of the next base URL of that platform
  ei,          \* index of the next record of results to evaluate
  fetchLog,    \* this cycle's fetcher calls: url, ok, page
  sent,        \* listing notifications handed to the sink: url, ok
  errCause,    \* what raised the exception the loop's handler caught
  sleepKind,   \* "normal" or "cooldown" while sleeping
  sleepDur,    \* seconds passed to time.sleep by the loop
  cycle,       \* number of cycles started
  rejected,    \* history: the URLs of the records a predicate rejected
  call         \* a single application of a predicate (SpecPure)

vars ==
  <<variant, credentials, pc, exitCause, cfg, seen, results, src, ui, ei,
    fetchLog, sent, errCause, sleepKind, sleepDur, cycle, rejected, call>>

NoCall == [fn |-> "none"]

Init ==
  /\ variant \in Variants
  /\ credentials \in BOOLEAN
  /\ pc = "import"
  /\ exitCause = ""
  /\ cfg = NoCfg
  /\ seen = {}
  /\ results = <<>>
  /\ src = 1
  /\ ui = 1
  /\ ei = 1
  /\ fetchLog = <<>>
  /\ sent = <<>>
  /\ errCause = ""
  /\ sleepKind = ""
  /\ sleepDur = 0
  /\ cycle = 0
  /\ rejected = {}
  /\ call = NoCall

cycleVars == <<results, src, ui, ei, fetchLog>>

\* ---------------------------------------------------------------- startup
\* module level: if not TOKEN or not CHAT_ID: raise RuntimeError
CheckCredentials ==
  /\ pc = "import"
  /\ IF credentials
       THEN pc' = "main" /\ UNCHANGED exitCause
       ELSE pc' = "exited" /\ exitCause' = "credentials"
  /\ UNCHANGED <<variant, credentials, rejected, cfg, seen, cycleVars, sent, errCause,
                 sleepKind, sleepDur, cycle, call>>

\* main() / bot_loop() up to the while loop
MainStart ==
  /\ pc = "main"
  /\ IF variant = "v1"
       THEN \* cfg = load_cfg(); seen = set(); bot.send_message(...): none
            \* of the three is inside a try
            \E loadOk \in BOOLEAN, msgOk \in BOOLEAN, c \in ConfigFiles :
              IF ~loadOk
                THEN pc' = "exited" /\ exitCause' = "load_cfg"
                     /\ UNCHANGED cfg
              ELSE IF ~msgOk
                THEN pc' = "exited" /\ exitCause' = "startup_message"
                     /\ cfg' = c
              ELSE pc' = "loop" /\ cfg' = c /\ UNCHANGED exitCause
       ELSE \* tg_send_message(...) logs its own failure; seen = set()
            pc' = "loop" /\ UNCHANGED <<cfg, exitCause>>
  /\ seen' = {}
  /\ UNCHANGED <<variant, credentials, rejected, cycleVars, sent, errCause, sleepKind,
                 sleepDur, cycle, call>>

\* ------------------------------------------------------------- one cycle
Range(f) == {f[i] : i \in DOMAIN f}

\* the condition of the  if  that guards a platform's for loop
SourceGate(v, c, p) ==
  IF v = "v1"
    THEN p \in Range(Get(c, "platforms", <<>>))
    ELSE Has(c, p) /\ Has(c[p], "base_urls")

\* cfg[p]["base_urls"] raises KeyError
SourceKeyError(c, p) == ~(Has(c, p) /\ Has(c[p], "base_urls"))

Platform == PlatformOrder[src]

ResetCycleVars ==
  /\ results' = <<>>
  /\ src' = 1
  /\ ui' = 1
  /\ ei' = 1
  /\ fetchLog' = <<>>

\* the except clause of the while loop is entered
Raise(cause) ==
  /\ pc' = "handler"
  /\ errCause' = cause
  /\ ResetCycleVars

\* cfg = load_cfg() at the top of the try
LoadCfg ==
  /\ pc = "loop"
  /\ cycle < MaxCycles
  /\ cycle' = cycle + 1
  /\ \/ /\ Raise("load_cfg")
        /\ UNCHANGED cfg
     \/ /\ \E c \in ConfigFiles : cfg' = c
        /\ pc' = "fetch"
        /\ ResetCycleVars
        /\ UNCHANGED errCause
  /\ UNCHANGED <<variant, credentials, rejected, exitCause, seen, sent, sleepKind,
                 sleepDur, call>>

\* move on to the next platform, or to the filter loop after the last one
Advance ==
  IF src < Len(PlatformOrder)
    THEN src' = src + 1 /\ ui' = 1 /\ pc' = "fetch" /\ ei' = 1
    ELSE src' = src /\ ui' = ui /\ pc' = "eval" /\ ei' = 1

\* the platform's  if  is false, or its for loop is exhausted
NextSource ==
  /\ pc = "fetch"
  /\ \/ ~SourceGate(variant, cfg, Platform)
     \/ /\ SourceGate(variant, cfg, Platform)
        /\ ~SourceKeyError(cfg, Platform)
        /\ ui > Len(cfg[Platform]["base_urls"])
  /\ Advance
  /\ UNCHANGED <<variant, credentials, rejected, exitCause, cfg, seen, results,
                 fetchLog, sent, errCause, sleepKind, sleepDur, cycle, call>>

\* the  if  is true but the platform's section or its base_urls is missing
SourceMissing ==
  /\ pc = "fetch"
  /\ SourceGate(variant, cfg, Platform)
  /\ SourceKeyError(cfg, Platform)
  /\ Raise("KeyError")
  /\ UNCHANGED <<variant, credentials, rejected, exitCause, cfg, seen, sent, sleepKind,
                 sleepDur, cycle, call>>

CanFetch ==
  /\ pc = "fetch"
  /\ SourceGate(variant, cfg, Platform)
  /\ ~SourceKeyError(cfg, Platform)
  /\ ui <= Len(cfg[Platform]["base_urls"])

\* try: results += fetch_x(u)
FetchOk ==
  /\ CanFetch
  /\ \E page \in Pages :
       /\ results' = results \o page
       /\ fetchLog' = Append(fetchLog,
            [url |-> cfg[Platform]["base_urls"][ui], ok |-> TRUE,
             page |-> page])
  /\ ui' = ui + 1
  /\ UNCHANGED <<variant, credentials, rejected, pc, exitCause, cfg, seen, src, ei,
                 sent, errCause, sleepKind, sleepDur, cycle, call>>

\* bug: the fetcher's exception is not caught around the call and reaches the
\* except clause of the while loop
FetchFail_Abort ==
  /\ CanFetch
  /\ Raise("fetch")
  /\ UNCHANGED <<variant, credentials, rejected, exitCause, cfg, seen, sent, sleepKind,
                 sleepDur, cycle, call>>

\* except Exception: logging.warning(...); time.sleep(2)
FetchFail ==
  /\ CanFetch
  /\ fetchLog' = Append(fetchLog,
       [url |-> cfg[Platform]["base_urls"][ui], ok |-> FALSE, page |-> <<>>])
  /\ ui' = ui + 1
  /\ UNCHANGED <<variant, credentials, rejected, pc, exitCause, cfg, seen, results,
                 src, ei, sent, errCause, sleepKind, sleepDur, cycle, call>>

\* ------------------------------------------------------- filter & notify
Item == results[ei]

\* bug: the seen test is dropped
has_seen_Never(fid, s) == FALSE

\* if fid in seen: continue
has_seen(fid, s) == fid \in s

\* seen.add(fid)
mark_seen(s, fid) == s \cup {fid}

\* bug: the terms_pass test is dropped from the chain
PassesFilters_NoTerms(v, it, c) ==
  /\ in_model_range(it.title, Get(c, "models", <<>>))
  /\ price_ok(v, it.price, c)
  /\ shipping_passes(Combine(it.title, it.desc), c)

\* the chain of  if not ...: continue  between the seen test and the send
PassesFilters(v, it, c) ==
  IF ~in_model_range(it.title, Get(c, "models", <<>>)) THEN FALSE
  ELSE IF ~price_ok(v, it.price, c) THEN FALSE
  ELSE IF v = "web"
    THEN IF ~terms_pass(it.title, it.desc, c) THEN FALSE
         ELSE shipping_passes(Combine(it.title, it.desc), c)
    ELSE IF ~shipping_passes(Combine(it.title, it.desc), c) THEN FALSE
         ELSE terms_pass(it.title, it.desc, c)

\* bug: the sink's failure is not caught and propagates to the caller
DeliveryRaises_NoCatch(v, ok) == ~ok

\* does a failed delivery raise out of send_telegram?  The sink's own
\* try/except logs the failure, so it does not.
DeliveryRaises(v, ok) == FALSE

CanEvaluate == pc = "eval" /\ ei <= Len(results)

SkipSeen ==
  /\ CanEvaluate
  /\ has_seen(fingerprint(Item.url), seen)
  /\ ei' = ei + 1
  /\ UNCHANGED <<variant, credentials, rejected, pc, exitCause, cfg, seen, results,
                 src, ui, fetchLog, sent, errCause, sleepKind, sleepDur,
                 cycle, call>>

\* bug: the fingerprint is marked before the predicates are consulted
Reject_MarksSeen ==
  /\ CanEvaluate
  /\ ~has_seen(fingerprint(Item.url), seen)
  /\ ~PassesFilters(variant, Item, cfg)
  /\ ei' = ei + 1
  /\ rejected' = rejected \cup {Item.url}
  /\ seen' = mark_seen(seen, fingerprint(Item.url))
  /\ UNCHANGED <<variant, credentials, pc, exitCause, cfg, results,
                 src, ui, fetchLog, sent, errCause, sleepKind, sleepDur,
                 cycle, call>>

Reject ==
  /\ CanEvaluate
  /\ ~has_seen(fingerprint(Item.url), seen)
  /\ ~PassesFilters(variant, Item, cfg)
  /\ ei' = ei + 1
  /\ rejected' = rejected \cup {Item.url}
  /\ UNCHANGED <<variant, credentials, pc, exitCause, cfg, seen, results,
                 src, ui, fetchLog, sent, errCause, sleepKind, sleepDur,
                 cycle, call>>

\* send_telegram(it, tag=cfg.get("tag_prefix")); seen.add(fid)
Notify ==
  /\ CanEvaluate
  /\ ~has_seen(fingerprint(Item.url), seen)
  /\ PassesFilters(variant, Item, cfg)
  /\ \E ok \in BOOLEAN :
       /\ sent' = Append(sent, [url |-> Item.url, ok |-> ok])
       /\ IF DeliveryRaises(variant, ok)
            THEN /\ Raise("send_telegram")
                 /\ UNCHANGED seen
            ELSE /\ seen' = mark_seen(seen, fingerprint(Item.url))
                 /\ ei' = ei + 1
                 /\ UNCHANGED <<pc, results, src, ui, fetchLog, errCause>>
  /\ UNCHANGED <<variant, credentials, rejected, exitCause, cfg, sleepKind, sleepDur,
                 cycle, call>>

\* int(cfg.get("search_interval_seconds", 180))
NormalSleep(c) == Get(c, "search_interval_seconds", DEFAULT_INTERVAL)

\* bug: the except clause sleeps the configured interval
CooldownSleep_Interval(c) ==
  IF c = NoCfg THEN DEFAULT_INTERVAL ELSE NormalSleep(c)

\* the argument of time.sleep in the except clause
CooldownSleep(c) == COOLDOWN_SECONDS

\* the filter loop is exhausted: time.sleep(interval)
EndCycle ==
  /\ pc = "eval"
  /\ ei > Len(results)
  /\ pc' = "sleeping"
  /\ sleepKind' = "normal"
  /\ sleepDur' = NormalSleep(cfg)
  /\ ResetCycleVars
  /\ UNCHANGED <<variant, credentials, rejected, exitCause, cfg, seen, sent, errCause,
                 cycle, call>>

\* except Exception: log, best-effort alert, time.sleep(120)
Handler ==
  /\ pc = "handler"
  /\ pc' = "sleeping"
  /\ sleepKind' = "cooldown"
  /\ sleepDur' = CooldownSleep(cfg)
  /\ UNCHANGED <<variant, credentials, rejected, exitCause, cfg, seen, cycleVars, sent,
                 errCause, cycle, call>>

\* time.sleep returns: next iteration of while True
Wake ==
  /\ pc = "sleeping"
  /\ pc' = "loop"
  /\ sleepKind' = ""
  /\ sleepDur' = 0
  /\ errCause' = ""
  /\ UNCHANGED <<variant, credentials, rejected, exitCause, cfg, seen, cycleVars, sent,
                 cycle, call>>

Next ==
  \/ CheckCredentials
  \/ MainStart
  \/ LoadCfg
  \/ NextSource
  \/ SourceMissing
  \/ FetchOk
  \/ FetchFail
  \/ SkipSeen
  \/ Reject
  \/ Notify
  \/ EndCycle
  \/ Handler
  \/ Wake

Spec == Init /\ [][Next]_vars

\* ------------------------------------------------ the predicates alone
\* One application of a predicate to inputs drawn from bounded sets; the
\* call and its result are recorded in  call.
Opt(k, vals) == {<<>>} \cup {[x \in {k} |-> v] : v \in vals}

\* prices parse_price can produce: None or an integer of at most 7 digits
Prices == {None} \cup {Some(p) : p \in {0, 99, 100, 101, 299, 300, 301,
                                        MAX_PARSED_PRICE}}

PriceCfgs ==
  {lo @@ hi : lo \in Opt("price_min", {0, 100, 300}),
              hi \in Opt("price_max", {100, 300, MAX_PARSED_PRICE})}

Terms == {<<"à">>, <<"A", "b">>, <<"€">>, <<"b", " ", "a">>}

TermLists == SeqsUpTo(Terms, MaxTerms)

Descs == {<<>>, <<" ", "A">>, <<"b", "€", "a">>}

\* every combination of term lists when shipping is required; when it is
\* not, the lists absent or holding one term each
ShipCfgs ==
  {r @@ pos @@ neg : r \in Opt("require_shipping", {TRUE}) \ {<<>>},
                     pos \in Opt("shipping_positive", TermLists),
                     neg \in Opt("shipping_negative", TermLists)}
  \cup
  {r @@ pos @@ neg : r \in Opt("require_shipping", {FALSE}),
                     pos \in Opt("shipping_positive", {<< <<"b", " ", "a">> >>}),
                     neg \in Opt("shipping_negative", {<< <<"à">> >>})}

InitPure == Init /\ credentials

mainVars ==
  <<variant, credentials, pc, exitCause, cfg, seen, results, src, ui, ei,
    fetchLog, sent, errCause, sleepKind, sleepDur, cycle, rejected>>

ApplyPriceOk ==
  /\ call = NoCall
  /\ \E p \in Prices, c \in PriceCfgs :
       call' = [fn |-> "price_ok", price |-> p, cfg |-> c,
                result |-> price_ok(variant, p, c)]
  /\ UNCHANGED mainVars

\* as the filter loop calls it: shipping_passes(f"{title} {desc}", cfg).
\* The function does not depend on the variant, so it is applied under one.
ApplyShippingPasses ==
  /\ call = NoCall
  /\ variant = "v1"
  /\ \E t \in Texts, d \in Descs, c \in ShipCfgs :
       call' = [fn |-> "shipping_passes", title |-> t, desc |-> d, cfg |-> c,
                result |-> shipping_passes(Combine(t, d), c)]
  /\ UNCHANGED mainVars

\* terms_any: no group, one group, or a group followed by a second one
SecondGroups == {<< <<"A", "b">> >>, << <<"b", " ", "a">>, <<"à">> >>}

GroupLists ==
  {<<>>} \cup {<<g>> : g \in TermLists}
         \cup {<<g, h>> : g \in TermLists, h \in SecondGroups}

ExcludeLists == {<<>>, << <<"b", "b">> >>}

TermsCfgs ==
  {inc @@ exc : inc \in Opt("terms_any", GroupLists),
                exc \in Opt("terms_exclude", ExcludeLists)}

\* terms_pass does not depend on the variant either
ApplyTermsPass ==
  /\ call = NoCall
  /\ variant = "v2"
  /\ \E t \in Texts, d \in Descs, c \in TermsCfgs :
       call' = [fn |-> "terms_pass", title |-> t, desc |-> d, cfg |-> c,
                result |-> terms_pass(t, d, c)]
  /\ UNCHANGED mainVars

NextPure ==
  \/ ApplyPriceOk
  \/ ApplyShippingPasses
  \/ ApplyTermsPass

SpecPure == InitPure /\ [][NextPure]_vars

\* ================================================================ claims
SentUrls == {sent[i].url : i \in DOMAIN sent}

Dispatches(log, u) == Cardinality({i \in DOMAIN log : log[i].url = u})

\* the evaluated record was the first of this cycle's results with its URL
FirstOfUrl(k) == \A j \in 1..(k - 1) : results[j].url # results[k].url

AllFour(v, it, c) ==
  /\ in_model_range(it.title, Get(c, "models", <<>>))
  /\ price_ok(v, it.price, c)
  /\ shipping_passes(Combine(it.title, it.desc), c)
  /\ terms_pass(it.title, it.desc, c)

\* C1: the sink is handed at most one notification per distinct URL over the
\* whole run, and once a URL's fingerprint is seen no step dispatches a
\* record with that URL again.
C1_AtMostOncePerUrl ==
  /\ [](\A u \in ListingUrls : Dispatches(sent, u) <= 1)
  /\ [][\A u \in ListingUrls :
          fingerprint(u) \in seen => Dispatches(sent', u) = Dispatches(sent, u)]_vars

\* C1 witness: in a later cycle a record whose URL was delivered in an
\* earlier cycle, and which passes the filters again, has been skipped.
C1_Witness ==
  /\ pc = "eval" /\ cycle = 2 /\ ei > 1
  /\ FirstOfUrl(ei - 1)
  /\ PassesFilters(variant, results[ei - 1], cfg)
  /\ \E i \in DOMAIN sent : sent[i].url = results[ei - 1].url /\ sent[i].ok
  /\ Dispatches(sent, results[ei - 1].url) = 1

\* C2: an evaluation step dispatches the record and marks its fingerprint
\* exactly when the fingerprint was not seen and all four predicates pass;
\* otherwise it dispatches nothing and leaves the seen set alone.
C2_NotifyIffFreshAndAllPass ==
  [][CanEvaluate =>
       LET it == results[ei]
           fresh == fingerprint(it.url) \notin seen
           pass == AllFour(variant, it, cfg)
       IN IF fresh /\ pass
            THEN /\ Len(sent') = Len(sent) + 1
                 /\ SubSeq(sent', 1, Len(sent)) = sent
                 /\ sent'[Len(sent')].url = it.url
                 /\ seen' = seen \cup {fingerprint(it.url)}
            ELSE sent' = sent /\ seen' = seen]_vars

\* C2 witness: in one cycle a fresh record was rejected by a predicate and
\* another fresh record passed all four and was dispatched and marked.
C2_Witness ==
  /\ pc = "eval" /\ ei > 2
  /\ \E j \in 1..(ei - 1) :
       /\ fingerprint(results[j].url) \notin seen
       /\ ~AllFour(variant, results[j], cfg)
  /\ AllFour(variant, results[ei - 1], cfg)
  /\ FirstOfUrl(ei - 1)
  /\ sent # <<>> /\ sent[Len(sent)].url = results[ei - 1].url
  /\ fingerprint(results[ei - 1].url) \in seen

\* the search URLs a cycle under configuration c has to call, in order
UrlsOf(v, c, p) ==
  IF SourceGate(v, c, p) /\ ~SourceKeyError(c, p)
    THEN c[p]["base_urls"] ELSE <<>>

ConfiguredUrls(v, c) ==
  UrlsOf(v, c, PlatformOrder[1]) \o UrlsOf(v, c, PlatformOrder[2])

RECURSIVE PagesOf(_)
PagesOf(log) ==
  IF log = <<>> THEN <<>>
  ELSE (IF Head(log).ok THEN Head(log).page ELSE <<>>) \o PagesOf(Tail(log))

\* C3: a failed fetcher call only moves the cycle on to the next URL with
\* the records collected so far; the loop's handler is never entered because
\* of a fetch; when the filter loop runs, every configured URL of every
\* enabled platform has been called and the records of all successful calls
\* are in the results; and the filter loop is left only after every record
\* has been evaluated.
C3_FetchFailureIsolated ==
  /\ [][(CanFetch /\ fetchLog' # fetchLog /\ ~fetchLog'[Len(fetchLog')].ok)
          => (pc' = "fetch" /\ results' = results /\ src' = src
              /\ ui' = ui + 1 /\ errCause' = errCause)]_vars
  /\ [](pc = "handler" => errCause \in {"load_cfg", "KeyError"})
  /\ [](pc = "eval" =>
          /\ [i \in 1..Len(fetchLog) |-> fetchLog[i].url]
               = ConfiguredUrls(variant, cfg)
          /\ results = PagesOf(fetchLog))
  /\ [][(pc = "eval" /\ pc' # "eval")
          => (ei = Len(results) + 1 /\ pc' = "sleeping")]_vars

\* C3 witness: the second of three configured URLs failed, the first and
\* the third returned records, and all of them have been evaluated.
C3_Witness ==
  /\ pc = "eval"
  /\ Len(fetchLog) = 3
  /\ fetchLog[1].ok /\ fetchLog[1].page # <<>>
  /\ ~fetchLog[2].ok
  /\ fetchLog[3].ok /\ fetchLog[3].page # <<>>
  /\ results = fetchLog[1].page \o fetchLog[3].page
  /\ ei = Len(results) + 1

\* C4: the process ends only for missing credentials.
C4_OnlyCredentialsAreFatal == pc = "exited" => exitCause = "credentials"

\* C5: a notification whose delivery failed has its fingerprint in the seen
\* set and is the only attempt for its URL; the step that met the failure
\* went on to the next record of the same cycle; the loop's handler is
\* never entered because of the sink.
C5_FailedDeliveryStillSeen ==
  /\ [](\A i \in DOMAIN sent :
          ~sent[i].ok =>
            /\ fingerprint(sent[i].url) \in seen
            /\ Dispatches(sent, sent[i].url) = 1)
  /\ [](errCause # "send_telegram")
  /\ [][(CanEvaluate /\ sent' # sent /\ ~sent'[Len(sent')].ok)
          => (pc' = "eval" /\ ei' = ei + 1 /\ results' = results
              /\ cycle' = cycle)]_vars

\* C5 witness: a listing whose delivery failed in an earlier cycle was
\* fetched again, still passes the filters, and has been skipped.
C5_Witness ==
  /\ pc = "eval" /\ cycle = 2 /\ ei > 1
  /\ FirstOfUrl(ei - 1)
  /\ PassesFilters(variant, results[ei - 1], cfg)
  /\ \E i \in DOMAIN sent : sent[i].url = results[ei - 1].url /\ ~sent[i].ok
  /\ Dispatches(sent, results[ei - 1].url) = 1
  /\ ei <= Len(results)

\* C6 as stated: whenever the loop sleeps its cooldown, the cooldown is
\* longer than the normal interval of the configuration it last loaded.
C6_CooldownLongerThanInterval ==
  (pc = "sleeping" /\ sleepKind = "cooldown" /\ cfg # NoCfg)
    => sleepDur > NormalSleep(cfg)

\* C6 amended: the cooldown is 120 seconds whatever the configuration, the
\* normal sleep is the configured interval or 180 seconds, so the cooldown is
\* the longer of the two exactly when an interval below 120 is configured;
\* after either sleep the loop starts its next iteration.
C6_FixedCooldown ==
  /\ []((pc = "sleeping" /\ sleepKind = "cooldown") =>
          /\ sleepDur = 120
          /\ cfg # NoCfg =>
               (sleepDur > NormalSleep(cfg)
                  <=> (Has(cfg, "search_interval_seconds")
                       /\ cfg["search_interval_seconds"] < 120)))
  /\ []((pc = "sleeping" /\ sleepKind = "normal") =>
          sleepDur = IF Has(cfg, "search_interval_seconds")
                       THEN cfg["search_interval_seconds"] ELSE 180)
  /\ [][pc = "sleeping" => pc' = "loop"]_vars

\* C6 witness: a cooldown sleep after a failed cycle, the last configuration
\* loaded leaving the interval at its default of 180 seconds.
C6_Witness ==
  /\ pc = "sleeping" /\ sleepKind = "cooldown"
  /\ errCause \in {"load_cfg", "KeyError"}
  /\ cfg # NoCfg /\ ~Has(cfg, "search_interval_seconds")
  /\ sleepDur < NormalSleep(cfg)

\* no constraint configured: keys absent, or present and empty / false
Unconstrained(c) ==
  /\ Get(c, "models", <<>>) = <<>>
  /\ Get(c, "terms_any", <<>>) = <<>>
  /\ Get(c, "terms_exclude", <<>>) = <<>>
  /\ ~Get(c, "require_shipping", FALSE)
  /\ ~Has(c, "price_min") /\ ~Has(c, "price_max")

\* C7: under a configuration with no constraint every record passes each of
\* the four predicates, and the evaluation step of a record not yet seen
\* dispatches it and marks it.
C7_UnconstrainedAcceptsAll ==
  /\ []((CanEvaluate /\ Unconstrained(cfg)) =>
          /\ in_model_range(Item.title, Get(cfg, "models", <<>>))
          /\ price_ok(variant, Item.price, cfg)
          /\ shipping_passes(Combine(Item.title, Item.desc), cfg)
          /\ terms_pass(Item.title, Item.desc, cfg))
  /\ [][(CanEvaluate /\ Unconstrained(cfg)
         /\ fingerprint(Item.url) \notin seen)
          => (/\ Len(sent') = Len(sent) + 1
              /\ sent'[Len(sent')].url = Item.url
              /\ fingerprint(Item.url) \in seen')]_vars

\* C7 witness: under an unconstrained configuration a listing of unknown
\* price and a listing of known price have both been notified in one cycle.
C7_Witness ==
  /\ pc = "eval" /\ Unconstrained(cfg) /\ ei > 2
  /\ \E j, k \in 1..(ei - 1) :
       /\ results[j].price = None /\ FirstOfUrl(j)
       /\ results[k].price # None /\ FirstOfUrl(k)
       /\ {results[j].url, results[k].url} \subseteq SentUrls
  /\ Len(sent) = Cardinality({results[j].url : j \in 1..(ei - 1)})

\* the normalized title+description contains a normalized excluded term
HasExcludedTerm(it, c) ==
  \E i \in DOMAIN Get(c, "terms_exclude", <<>>) :
    Contains(normalize(c["terms_exclude"][i]),
             normalize(Combine(it.title, it.desc)))

\* C8: the evaluation step of a record whose normalized title+description
\* contains a normalized term of terms_exclude dispatches nothing and adds
\* nothing to the seen set, whatever the other predicates say.
C8_ExclusionDominates ==
  [][(CanEvaluate /\ HasExcludedTerm(Item, cfg))
       => (sent' = sent /\ seen' = seen)]_vars

\* C8 witness: a fresh record that matches models, the price band, the
\* shipping policy and terms_any but contains an excluded term has been
\* evaluated, and its fingerprint is not in the seen set.
C8_Witness ==
  /\ pc = "eval" /\ ei > 1
  /\ HasExcludedTerm(results[ei - 1], cfg)
  /\ Get(cfg, "models", <<>>) # <<>>
  /\ Get(cfg, "terms_any", <<>>) # <<>>
  /\ Get(cfg, "require_shipping", FALSE)
  /\ in_model_range(results[ei - 1].title, cfg["models"])
  /\ price_ok(variant, results[ei - 1].price, cfg)
  /\ shipping_passes(Combine(results[ei - 1].title, results[ei - 1].desc), cfg)
  /\ terms_pass(results[ei - 1].title, results[ei - 1].desc,
                [k \in DOMAIN cfg \ {"terms_exclude"} |-> cfg[k]])
  /\ fingerprint(results[ei - 1].url) \notin seen

\* C9: price_ok passes an unknown price; it passes a known price exactly
\* when the price is at least price_min, if price_min is present, and at
\* most price_max, if price_max is present.
C9_PriceBand ==
  call.fn = "price_ok" =>
    (call.result <=>
       \/ call.price = None
       \/ /\ Has(call.cfg, "price_min") => call.cfg["price_min"] <= call.price[1]
          /\ Has(call.cfg, "price_max") => call.price[1] <= call.cfg["price_max"])

\* C10: shipping_passes is true when require_shipping is false or absent;
\* when it is true, the result is true exactly when shipping_positive is
\* empty or some normalized positive term occurs in the normalized
\* title+description, and no normalized negative term occurs in it.
C10_ShippingPolicy ==
  call.fn = "shipping_passes" =>
    LET c == call.cfg
        t == normalize(call.title \o <<" ">> \o call.desc)
        pos == IF Has(c, "shipping_positive") THEN c["shipping_positive"] ELSE <<>>
        neg == IF Has(c, "shipping_negative") THEN c["shipping_negative"] ELSE <<>>
        Occurs(w) == \E i \in 0..(Len(t) - Len(normalize(w))) :
                       \A k \in 1..Len(normalize(w)) : t[i + k] = normalize(w)[k]
    IN call.result <=>
         \/ ~(Has(c, "require_shipping") /\ c["require_shipping"])
         \/ /\ pos = <<>> \/ \E i \in DOMAIN pos : Occurs(pos[i])
            /\ ~\E i \in DOMAIN neg : Occurs(neg[i])

\* C10 witness: shipping is required, positive terms are configured, none
\* of them and no negative term occurs in the text, and the call returned
\* false.
C10_Witness ==
  /\ call.fn = "shipping_passes"
  /\ Has(call.cfg, "require_shipping") /\ call.cfg["require_shipping"]
  /\ Has(call.cfg, "shipping_positive") /\ call.cfg["shipping_positive"] # <<>>
  /\ ~AnyTerm(call.cfg["shipping_positive"],
              normalize(Combine(call.title, call.desc)))
  /\ ~AnyTerm(Get(call.cfg, "shipping_negative", <<>>),
              normalize(Combine(call.title, call.desc)))
  /\ call.title # <<>>
  /\ ~call.result

\* what a variant does with a platform of the configuration: the URLs it
\* calls, and whether it raises KeyError instead
SourceRaises(v, c, p) == SourceGate(v, c, p) /\ SourceKeyError(c, p)

\* C11: the three variants behave alike: in every reachable state each
\* variant would take the decision the running one takes.  None ends the
\* process for anything but missing credentials, all call the same URLs of
\* the platform at hand or all raise on it, and all give the same verdict
\* on the record at hand, so that the same notifications are dispatched in
\* the same order and the seen sets stay equal.
C11_VariantsAgree ==
  \A v \in Variants :
    /\ pc = "exited" => exitCause = "credentials"
    /\ pc = "fetch" =>
         /\ SourceRaises(v, cfg, Platform) = SourceRaises(variant, cfg, Platform)
         /\ UrlsOf(v, cfg, Platform) = UrlsOf(variant, cfg, Platform)
    /\ CanEvaluate =>
         PassesFilters(v, Item, cfg) = PassesFilters(variant, Item, cfg)

\* w, already normalized, occurs in t
OccursIn(n, t) ==
  \E i \in 0..(Len(t) - Len(n)) : \A k \in 1..Len(n) : t[i + k] = n[k]

\* some term of the list occurs, normalized, in t
SomeOccurs(lst, t) == \E i \in DOMAIN lst : OccursIn(normalize(lst[i]), t)

\* C12: on a text in which no excluded term occurs, terms_pass is true
\* exactly when terms_any is absent or empty, or some term of some group
\* occurs in the normalized title+description; a hit in one group is
\* enough.
C12_InclusionAnyGroup ==
  call.fn = "terms_pass" =>
    LET t == normalize(call.title \o <<" ">> \o call.desc)
        groups == IF Has(call.cfg, "terms_any")
                    THEN call.cfg["terms_any"] ELSE <<>>
        excl == IF Has(call.cfg, "terms_exclude")
                  THEN call.cfg["terms_exclude"] ELSE <<>>
    IN ~SomeOccurs(excl, t) =>
         (call.result <=>
            \/ groups = <<>>
            \/ \E g \in DOMAIN groups : SomeOccurs(groups[g], t))

\* C12 witness: two groups are configured, a term of one of them occurs in
\* the text, no term of the other does, and the call returned true.
C12_Witness ==
  /\ call.fn = "terms_pass"
  /\ Has(call.cfg, "terms_any") /\ Len(call.cfg["terms_any"]) = 2
  /\ \E g, h \in {1, 2} :
       /\ g # h
       /\ SomeOccurs(call.cfg["terms_any"][g],
                     normalize(Combine(call.title, call.desc)))
       /\ call.cfg["terms_any"][h] # <<>>
       /\ ~SomeOccurs(call.cfg["terms_any"][h],
                      normalize(Combine(call.title, call.desc)))
  /\ call.result

\* C13: the seen set is exactly the set of fingerprints of the URLs handed
\* to the sink; no step removes a fingerprint; the evaluation of a record
\* that a predicate rejects leaves the seen set alone; and a record whose
\* URL was rejected before, is still unseen and passes all four predicates
\* under the configuration of the current cycle is dispatched and marked.
C13_SeenIsExactlyNotified ==
  /\ [](seen = {fingerprint(u) : u \in SentUrls})
  /\ [][seen \subseteq seen']_vars
  /\ [][(/\ CanEvaluate
         /\ fingerprint(Item.url) \notin seen
         /\ ~AllFour(variant, Item, cfg)) => seen' = seen]_vars
  /\ [](\A u \in rejected \ SentUrls : fingerprint(u) \notin seen)
  /\ [][(/\ CanEvaluate
         /\ Item.url \in rejected
         /\ fingerprint(Item.url) \notin seen
         /\ AllFour(variant, Item, cfg))
          => (/\ sent' = Append(sent, sent'[Len(sent')])
              /\ sent'[Len(sent')].url = Item.url
              /\ seen' = seen \cup {fingerprint(Item.url)})]_vars

\* C13 witness: a listing rejected in an earlier cycle has been fetched
\* again in this cycle, accepted under the reloaded configuration and
\* notified, and only now is its fingerprint in the seen set.
C13_Witness ==
  /\ pc = "eval" /\ cycle >= 2 /\ ei > 1
  /\ results[ei - 1].url \in rejected
  /\ FirstOfUrl(ei - 1)
  /\ AllFour(variant, results[ei - 1], cfg)
  /\ sent # <<>> /\ sent[Len(sent)].url = results[ei - 1].url
  /\ Dispatches(sent, results[ei - 1].url) = 1
  /\ fingerprint(results[ei - 1].url) \in seen

====
